---- MODULE Spec2Model ----
(***************************************************************************)
(* Model of src/src/markdown.ts: the Markdown -> Google Docs request       *)
(* compiler (markdownToDocRequests and its helper parseInline).            *)
(*                                                                         *)
(* A JavaScript string is a sequence of one-character strings.  Indices    *)
(* into strings (i, the scan positions) are 0-based as in the source;      *)
(* document indices (startIndex, endIndex, currentIndex) are the numbers   *)
(* the source computes.  One run of markdownToDocRequests is one           *)
(* behaviour: pc walks through the function's loops, one action per loop   *)
(* iteration (per branch of the iteration where the source branches).      *)
(***************************************************************************)
EXTENDS Integers, Sequences, FiniteSets, TLC

VARIABLES
    markdown,      \* the argument of markdownToDocRequests
    pc,            \* position in markdownToDocRequests / parseInline
    lines,         \* const lines = markdown.split("\n")
    li,            \* number of lines the for-of loop of line 64 has consumed
    segments,      \* const segments: DocSegment[]
    ret,           \* call site parseInline returns to: "bullet" (l.78), "plain" (l.85)
    text,          \* parseInline: parameter text
    i,             \* parseInline: let i
    current,       \* parseInline: let current
    result,        \* parseInline: const result
    si,            \* number of segments the loop of line 102 has consumed
    styleRanges,   \* const styleRanges
    fullText,      \* let fullText
    currentIndex,  \* let currentIndex
    ri,            \* number of ranges the loop of line 146 has consumed
    requests       \* const requests: object[]

vars == <<markdown, pc, lines, li, segments, ret, text, i, current, result,
          si, styleRanges, fullText, currentIndex, ri, requests>>

parseVars == <<ret, text, i, current, result>>
layoutVars == <<si, styleRanges, fullText, currentIndex>>

-----------------------------------------------------------------------------
(* Bounds and inputs *)

MaxLen == 5

\* the character U+0060 (a string literal of the language cannot hold it)
Backtick == "BACKTICK"

Alphabet == {"#", "-", "*", Backtick, " ", "a", "\n"}

BoundedInputs == UNION {[1..n -> Alphabet] : n \in 0..MaxLen}

\* lines that hold or end with a carriage return (CRLF documents)
ReturnAlphabet == {"#", " ", "a", "\r", "\n"}

ReturnInputs == UNION {[1..n -> ReturnAlphabet] : n \in 0..MaxLen}

TitleInput == <<"#", " ", "T", "i", "t", "l", "e">>

UnterminatedInput == <<"*", "u", "n", "t", "e", "r", "m", "i", "n", "a", "t", "e", "d">>

BoldItalicInput ==
    <<"*", "*", "b", "o", "l", "d", "*", "*", " ", "a", "n", "d", " ",
      "*", "i", "t", "a", "l", "i", "c", "*">>

ItemsInput ==
    <<"-", " ", "i", "t", "e", "m", " ", "o", "n", "e", "\n",
      "-", " ", "i", "t", "e", "m", " ", "t", "w", "o">>

\* a document with every kind of line: "# T*", "- *a*", "", "**b** `c`"
MixedInput ==
    <<"#", " ", "T", "*", "\n",
      "-", " ", "*", "a", "*", "\n",
      "\n",
      "*", "*", "b", "*", "*", " ", Backtick, "c", Backtick>>

ExampleInputs == {TitleInput, UnterminatedInput, BoldItalicInput, ItemsInput, MixedInput}

Inputs == BoundedInputs \cup ReturnInputs \cup ExampleInputs

-----------------------------------------------------------------------------
(* JavaScript values and string primitives *)

\* the value of a missing property / an out-of-range string index
Undefined == "undefined"

\* text[i] with a 0-based index: undefined past the end
CharAt(s, k) == IF k >= 0 /\ k < Len(s) THEN s[k + 1] ELSE Undefined

\* s.substring(from, to) with 0-based, end-exclusive positions
Slice(s, from, to) == SubSeq(s, from + 1, to)

\* the characters U+2028 and U+2029
LineSeparator == "U+2028"
ParagraphSeparator == "U+2029"

\* characters String.prototype.trim removes (those a model string can hold)
WhiteSpace == {" ", "\t", "\r", "\n", LineSeparator, ParagraphSeparator}

\* line.trim() === ""
TrimIsEmpty(line) == \A k \in 1..Len(line) : line[k] \in WhiteSpace

\* characters the regular expression atom "." does not match
LineTerminators == {"\n", "\r", LineSeparator, ParagraphSeparator}

RECURSIVE IndexOfNewline(_, _)
IndexOfNewline(s, k) ==
    IF k > Len(s) THEN 0
    ELSE IF s[k] = "\n" THEN k ELSE IndexOfNewline(s, k + 1)

\* a split that drops a trailing empty element
RECURSIVE SplitDropTrailing(_)
SplitDropTrailing(s) ==
    LET p == IndexOfNewline(s, 1) IN
    IF p = 0 THEN (IF s = <<>> THEN <<>> ELSE <<s>>)
    ELSE <<SubSeq(s, 1, p - 1)>> \o SplitDropTrailing(SubSeq(s, p + 1, Len(s)))

\* markdown.split("\n")
RECURSIVE Split(_)
Split(s) ==
    LET p == IndexOfNewline(s, 1) IN
    IF p = 0 THEN <<s>>
    ELSE <<SubSeq(s, 1, p - 1)>> \o Split(SubSeq(s, p + 1, Len(s)))

\* length of the longest prefix of s, from 0-based position k, that "." matches
RECURSIVE DotRunEnd(_, _)
DotRunEnd(s, k) ==
    IF k >= Len(s) \/ s[k + 1] \in LineTerminators THEN k ELSE DotRunEnd(s, k + 1)

\* line.match(/^<prefix>(.+)/): the prefix, then at least one character
Matches(line, prefix) ==
    /\ Len(line) > Len(prefix)
    /\ SubSeq(line, 1, Len(prefix)) = prefix
    /\ DotRunEnd(line, Len(prefix)) > Len(prefix)

\* the capture group [1] of that match
Capture(line, prefix) == Slice(line, Len(prefix), DotRunEnd(line, Len(prefix)))

H1Prefix == <<"#", " ">>
H2Prefix == <<"#", "#", " ">>
H3Prefix == <<"#", "#", "#", " ">>

\* /^[-*] (.+)/
BulletMatches(line) == Matches(line, <<"-", " ">>) \/ Matches(line, <<"*", " ">>)
BulletCapture(line) == Capture(line, <<"-", " ">>)

-----------------------------------------------------------------------------
(* parseInline, lines 15-58 *)

\* an InlineSegment; a flag that is FALSE is a property the object does not have
Inline(t, b, it) == [text |-> t, bold |-> b, italic |-> it]

\* { text: current }
PlainInline(t) == Inline(t, FALSE, FALSE)

\* the pending plain text is dropped instead of pushed
FlushDropped(res, cur) == res

\* if (current) result.push({ text: current })
Flush(res, cur) == IF cur # <<>> THEN Append(res, PlainInline(cur)) ELSE res

\* the inner loop of lines 26-28: where the scan for the closing "**" stops
RECURSIVE ScanBold(_, _)
ScanBold(t, k) ==
    IF k < Len(t) /\ ~(CharAt(t, k) = "*" /\ CharAt(t, k + 1) = "*")
    THEN ScanBold(t, k + 1)
    ELSE k

\* the scan stops one character short of the end of the line
RECURSIVE ScanItalicShort(_, _)
ScanItalicShort(t, k) ==
    IF k < Len(t) - 1 /\ CharAt(t, k) # "*" THEN ScanItalicShort(t, k + 1) ELSE k

\* the inner loop of lines 36-38: where the scan for the closing "*" stops
RECURSIVE ScanItalic(_, _)
ScanItalic(t, k) ==
    IF k < Len(t) /\ CharAt(t, k) # "*" THEN ScanItalic(t, k + 1) ELSE k

\* the inner loop of lines 46-48: where the scan for the closing backtick stops
RECURSIVE ScanCode(_, _)
ScanCode(t, k) ==
    IF k < Len(t) /\ CharAt(t, k) # Backtick THEN ScanCode(t, k + 1) ELSE k

\* segment.inlines.map((i) => i.text).join("")
RECURSIVE JoinText(_)
JoinText(inlines) ==
    IF inlines = <<>> THEN <<>>
    ELSE Head(inlines).text \o JoinText(Tail(inlines))

\* a DocSegment; bullet FALSE is a segment without the bullet property
Segment(inlines, style, bullet) ==
    [inlines |-> inlines, style |-> style, bullet |-> bullet]

\* a heading whose remainder is treated as emphasised when it holds a marker
HeadingInlinesStyled(t) ==
    <<Inline(t, FALSE, \E k \in 1..Len(t) : t[k] \in {"*", Backtick})>>

\* inlines: [{ text: h1[1] }] of lines 71, 73, 75
HeadingInlines(t) == <<PlainInline(t)>>

-----------------------------------------------------------------------------
Init ==
    /\ markdown \in Inputs
    /\ pc = "split"
    /\ lines = <<>>
    /\ li = 0
    /\ segments = <<>>
    /\ ret = "none"
    /\ text = <<>>
    /\ i = 0
    /\ current = <<>>
    /\ result = <<>>
    /\ si = 0
    /\ styleRanges = <<>>
    /\ fullText = <<>>
    /\ currentIndex = 1
    /\ ri = 0
    /\ requests = <<>>

\* line 61
SplitLines ==
    /\ pc = "split"
    /\ lines' = Split(markdown)
    /\ pc' = "classify"
    /\ UNCHANGED <<markdown, li, segments, parseVars, layoutVars, ri, requests>>


(* The for-of loop of lines 64-87, one action per branch *)

AtLine == pc = "classify" /\ li < Len(lines)
line == lines[li + 1]

PushSegment(seg) ==
    /\ segments' = Append(segments, seg)
    /\ li' = li + 1
    /\ UNCHANGED <<markdown, pc, lines, parseVars, layoutVars, ri, requests>>

\* lines 70-71
ClassifyH1 ==
    /\ AtLine
    /\ Matches(line, H1Prefix)
    /\ PushSegment(Segment(HeadingInlines(Capture(line, H1Prefix)), "HEADING_1", FALSE))

\* lines 72-73
ClassifyH2 ==
    /\ AtLine
    /\ ~Matches(line, H1Prefix)
    /\ Matches(line, H2Prefix)
    /\ PushSegment(Segment(HeadingInlines(Capture(line, H2Prefix)), "HEADING_2", FALSE))

\* lines 74-75
ClassifyH3 ==
    /\ AtLine
    /\ ~Matches(line, H1Prefix)
    /\ ~Matches(line, H2Prefix)
    /\ Matches(line, H3Prefix)
    /\ PushSegment(Segment(HeadingInlines(Capture(line, H3Prefix)), "HEADING_3", FALSE))

NoHeading ==
    /\ ~Matches(line, H1Prefix)
    /\ ~Matches(line, H2Prefix)
    /\ ~Matches(line, H3Prefix)

\* the call parseInline(arg) made from the call site site
CallParseInline(arg, site) ==
    /\ pc' = "parseInline"
    /\ ret' = site
    /\ text' = arg
    /\ i' = 0
    /\ current' = <<>>
    /\ result' = <<>>
    /\ UNCHANGED <<markdown, lines, li, segments, layoutVars, ri, requests>>

\* lines 76-78: the bullet branch calls parseInline(bullet[1])
ClassifyBullet ==
    /\ AtLine
    /\ NoHeading
    /\ BulletMatches(line)
    /\ CallParseInline(BulletCapture(line), "bullet")

\* lines 82-83
ClassifyBlank ==
    /\ AtLine
    /\ NoHeading
    /\ ~BulletMatches(line)
    /\ TrimIsEmpty(line)
    /\ PushSegment(Segment(<<PlainInline(<<>>)>>, "NORMAL_TEXT", FALSE))

\* lines 84-85: the last branch calls parseInline(line)
ClassifyPlain ==
    /\ AtLine
    /\ NoHeading
    /\ ~BulletMatches(line)
    /\ ~TrimIsEmpty(line)
    /\ CallParseInline(line, "plain")

(* parseInline: one action per branch of the while loop of lines 20-54 *)

InParse == pc = "parseInline" /\ i < Len(text)

ParseStep(res, pos) ==
    /\ result' = res
    /\ current' = <<>>
    /\ i' = pos
    /\ UNCHANGED <<markdown, pc, lines, li, segments, ret, text, layoutVars, ri, requests>>

\* lines 21-30
ParseBold ==
    /\ InParse
    /\ CharAt(text, i) = "*" /\ CharAt(text, i + 1) = "*"
    /\ LET end == ScanBold(text, i + 2) IN
       ParseStep(Append(Flush(result, current), Inline(Slice(text, i + 2, end), TRUE, FALSE)),
                 end + 2)

\* lines 31-40
ParseItalic ==
    /\ InParse
    /\ CharAt(text, i) = "*" /\ CharAt(text, i + 1) # "*"
    /\ LET end == ScanItalic(text, i + 1) IN
       ParseStep(Append(Flush(result, current), Inline(Slice(text, i + 1, end), FALSE, TRUE)),
                 end + 1)

\* lines 41-50
ParseCode ==
    /\ InParse
    /\ CharAt(text, i) # "*"
    /\ CharAt(text, i) = Backtick
    /\ LET end == ScanCode(text, i + 1) IN
       ParseStep(Append(Flush(result, current), Inline(Slice(text, i + 1, end), FALSE, TRUE)),
                 end + 1)

\* lines 51-53
ParseChar ==
    /\ InParse
    /\ CharAt(text, i) # "*"
    /\ CharAt(text, i) # Backtick
    /\ current' = Append(current, CharAt(text, i))
    /\ i' = i + 1
    /\ UNCHANGED <<markdown, pc, lines, li, segments, ret, text, result, layoutVars, ri, requests>>

\* lines 56-57, and the push of the call site (lines 77-81 or 85)
ParseReturn ==
    /\ pc = "parseInline"
    /\ i >= Len(text)
    /\ segments' = Append(segments, Segment(Flush(result, current), "NORMAL_TEXT", ret = "bullet"))
    /\ li' = li + 1
    /\ pc' = "classify"
    /\ UNCHANGED <<markdown, lines, parseVars, layoutVars, ri, requests>>

\* the loop of lines 64-87 is over
ClassifyDone ==
    /\ pc = "classify"
    /\ li >= Len(lines)
    /\ pc' = "layout"
    /\ UNCHANGED <<markdown, lines, li, segments, parseVars, layoutVars, ri, requests>>

(* The layout loop of lines 102-133, one action per segment *)

\* the rendered text without its newline
SegTextNoNewline(segment) == JoinText(segment.inlines)

\* lines 104-105
SegText(segment) == JoinText(segment.inlines) \o <<"\n">>

\* the range of a bullet segment also carries the segment's named style
ParagraphRangesStyled(segment, segStart) ==
    IF segment.style # "NORMAL_TEXT" \/ segment.bullet
    THEN <<[startIndex |-> segStart,
            endIndex |-> segStart + Len(JoinText(segment.inlines)) + 1,
            paragraphStyle |-> segment.style,
            bullet |-> segment.bullet]>>
    ELSE <<>>

\* the paragraph-level range stops before the line's newline
ParagraphRangesShort(segment, segStart) ==
    IF segment.style # "NORMAL_TEXT" \/ segment.bullet
    THEN <<[startIndex |-> segStart,
            endIndex |-> segStart + Len(JoinText(segment.inlines)),
            paragraphStyle |-> IF segment.bullet THEN Undefined ELSE segment.style,
            bullet |-> segment.bullet]>>
    ELSE <<>>

\* lines 110-117: the paragraph-level range of a segment, if it has one
ParagraphRanges(segment, segStart) ==
    IF segment.style # "NORMAL_TEXT" \/ segment.bullet
    THEN <<[startIndex |-> segStart,
            endIndex |-> segStart + Len(SegText(segment)),
            paragraphStyle |-> IF segment.bullet THEN Undefined ELSE segment.style,
            bullet |-> segment.bullet]>>
    ELSE <<>>

\* line 126: { bold: inline.bold, italic: inline.italic }; both keys are
\* always there, a FALSE value is the value undefined
TextStyle(inline) == [bold |-> inline.bold, italic |-> inline.italic]

\* the running index advances over styled runs only
RECURSIVE InlineRangesStuck(_, _)
InlineRangesStuck(inlines, inlineIndex) ==
    IF inlines = <<>> THEN <<>>
    ELSE LET inline == Head(inlines) IN
         IF inline.bold \/ inline.italic
         THEN <<[startIndex |-> inlineIndex,
                 endIndex |-> inlineIndex + Len(inline.text),
                 textStyle |-> [bold |-> inline.bold, italic |-> inline.italic]]>>
              \o InlineRangesStuck(Tail(inlines), inlineIndex + Len(inline.text))
         ELSE InlineRangesStuck(Tail(inlines), inlineIndex)

\* lines 120-130
RECURSIVE InlineRanges(_, _)
InlineRanges(inlines, inlineIndex) ==
    IF inlines = <<>> THEN <<>>
    ELSE LET inline == Head(inlines)
             rest == InlineRanges(Tail(inlines), inlineIndex + Len(inline.text))
         IN IF inline.bold \/ inline.italic
            THEN <<[startIndex |-> inlineIndex,
                    endIndex |-> inlineIndex + Len(inline.text),
                    textStyle |-> TextStyle(inline)]>> \o rest
            ELSE rest

\* lines 102-133, one iteration
Layout ==
    /\ pc = "layout"
    /\ si < Len(segments)
    /\ LET segment == segments[si + 1]
           segStart == currentIndex
           segText == SegText(segment)
       IN /\ fullText' = fullText \o segText
          /\ styleRanges' = styleRanges \o ParagraphRanges(segment, segStart)
                                        \o InlineRanges(segment.inlines, segStart)
          /\ currentIndex' = currentIndex + Len(segText)
    /\ si' = si + 1
    /\ UNCHANGED <<markdown, pc, lines, li, segments, parseVars, ri, requests>>

\* lines 136-143
InsertTextRequests(full) ==
    IF full # <<>>
    THEN <<[insertText |-> [location |-> [index |-> 1], text |-> full]]>>
    ELSE <<>>

InsertText ==
    /\ pc = "layout"
    /\ si >= Len(segments)
    /\ requests' = requests \o InsertTextRequests(fullText)
    /\ pc' = "styles"
    /\ UNCHANGED <<markdown, lines, li, segments, parseVars, layoutVars, ri>>

(* The loop of lines 146-173, one action per range *)

\* the truthiness tests of lines 147, 156 and 164
HasParagraphStyle(range) ==
    "paragraphStyle" \in DOMAIN range /\ range.paragraphStyle \notin {Undefined, <<>>}
HasBullet(range) == "bullet" \in DOMAIN range /\ range.bullet
HasTextStyle(range) == "textStyle" \in DOMAIN range

RangeOf(range) == [startIndex |-> range.startIndex, endIndex |-> range.endIndex]

\* Object.keys(obj): every own key, whatever its value
ObjectKeys(obj) == DOMAIN obj

\* lines 147-155
ParagraphStyleRequests(range) ==
    IF HasParagraphStyle(range)
    THEN <<[updateParagraphStyle |->
              [range |-> RangeOf(range),
               paragraphStyle |-> [namedStyleType |-> range.paragraphStyle],
               fields |-> {"namedStyleType"}]]>>
    ELSE <<>>

\* lines 156-163
BulletRequests(range) ==
    IF HasBullet(range)
    THEN <<[createParagraphBullets |->
              [range |-> RangeOf(range),
               bulletPreset |-> "BULLET_DISC_CIRCLE_SQUARE"]]>>
    ELSE <<>>

\* lines 164-172; fields is the set of the names the joined string lists
TextStyleRequests(range) ==
    IF HasTextStyle(range)
    THEN <<[updateTextStyle |->
              [range |-> RangeOf(range),
               textStyle |-> range.textStyle,
               fields |-> ObjectKeys(range.textStyle)]]>>
    ELSE <<>>

ApplyStyle ==
    /\ pc = "styles"
    /\ ri < Len(styleRanges)
    /\ LET range == styleRanges[ri + 1] IN
       requests' = requests \o ParagraphStyleRequests(range)
                            \o BulletRequests(range)
                            \o TextStyleRequests(range)
    /\ ri' = ri + 1
    /\ UNCHANGED <<markdown, pc, lines, li, segments, parseVars, layoutVars>>

\* line 175
Return ==
    /\ pc = "styles"
    /\ ri >= Len(styleRanges)
    /\ pc' = "done"
    /\ UNCHANGED <<markdown, lines, li, segments, parseVars, layoutVars, ri, requests>>

Next ==
    \/ SplitLines
    \/ ClassifyH1 \/ ClassifyH2 \/ ClassifyH3 \/ ClassifyBullet \/ ClassifyBlank \/ ClassifyPlain
    \/ ParseBold \/ ParseItalic \/ ParseCode \/ ParseChar \/ ParseReturn
    \/ ClassifyDone
    \/ Layout \/ InsertText \/ ApplyStyle \/ Return

Spec == Init /\ [][Next]_vars

-----------------------------------------------------------------------------
(* Vocabulary of the properties *)

MarkerChars == {"*", Backtick}

IsMarker(c) == c \in MarkerChars
IsNewline(c) == c = "\n"

\* a string with every asterisk and backtick removed
StripMarkers(s) == SelectSeq(s, LAMBDA c : ~IsMarker(c))

CountNewlines(s) == Len(SelectSeq(s, IsNewline))

StartsWith(s, prefix) == Len(s) >= Len(prefix) /\ SubSeq(s, 1, Len(prefix)) = prefix

\* the remainder of a line after a prefix of n characters
Remainder(s, n) == SubSeq(s, n + 1, Len(s))

IsInsertText(op) == "insertText" \in DOMAIN op
IsParagraphStyle(op) == "updateParagraphStyle" \in DOMAIN op
IsBullets(op) == "createParagraphBullets" \in DOMAIN op
IsTextStyle(op) == "updateTextStyle" \in DOMAIN op

\* the range of a style operation
OpRange(op) ==
    IF IsParagraphStyle(op) THEN op.updateParagraphStyle.range
    ELSE IF IsBullets(op) THEN op.createParagraphBullets.range
    ELSE op.updateTextStyle.range

StyleOps == {k \in 1..Len(requests) : ~IsInsertText(requests[k])}

Finished == pc = "done"

-----------------------------------------------------------------------------
\* C1 (as claimed): markdownToDocRequests("") returns the empty list: neither
\* an insertText nor a style operation is emitted.
C1_EmptyInputEmptyList == (Finished /\ markdown = <<>>) => requests = <<>>

TitleText == <<"T", "i", "t", "l", "e", "\n">>

TitleRequests(end) ==
    /\ Len(requests) = 2
    /\ IsInsertText(requests[1])
    /\ requests[1].insertText.location.index = 1
    /\ requests[1].insertText.text = TitleText
    /\ IsParagraphStyle(requests[2])
    /\ requests[2].updateParagraphStyle.paragraphStyle.namedStyleType = "HEADING_1"
    /\ requests[2].updateParagraphStyle.range = [startIndex |-> 1, endIndex |-> end]

\* C2 (as claimed): "# Title" yields exactly an insertText of "Title\n" at
\* index 1 and then one HEADING_1 paragraph style over start 1, end 8.
C2_TitleEnd8 == (Finished /\ markdown = TitleInput) => TitleRequests(8)

\* C2 (amended): "# Title" yields exactly an insertText of "Title\n" at index 1
\* and then one HEADING_1 paragraph style over start 1, end 7.
C2_TitleEnd7 == (Finished /\ markdown = TitleInput) => TitleRequests(7)

C2_Witness == Finished /\ markdown = TitleInput /\ Len(requests) = 2

\* C3 (as claimed): a line that begins with "# ", "## " or "### " becomes a
\* heading segment of level 1, 2, 3 whose text is the remainder, and a line
\* that begins with "- " or "* " becomes a bullet segment, an empty remainder
\* included.
C3_PrefixDecidesClass ==
    \A k \in 1..Len(segments) :
        LET ln == lines[k]
            seg == segments[k]
            heading(prefix, style) ==
                StartsWith(ln, prefix) =>
                    /\ seg.style = style
                    /\ ~seg.bullet
                    /\ JoinText(seg.inlines) = Remainder(ln, Len(prefix))
        IN /\ heading(H1Prefix, "HEADING_1")
           /\ heading(H2Prefix, "HEADING_2")
           /\ heading(H3Prefix, "HEADING_3")
           /\ (StartsWith(ln, <<"-", " ">>) \/ StartsWith(ln, <<"*", " ">>)) =>
                  (seg.bullet /\ seg.style = "NORMAL_TEXT")

\* C4 (as claimed): the field mask of every updateTextStyle operation names
\* only flags that the run carries (that the operation sets).
C4_MaskOnlySetFlags ==
    \A k \in 1..Len(requests) :
        IsTextStyle(requests[k]) =>
            \A f \in requests[k].updateTextStyle.fields :
                requests[k].updateTextStyle.textStyle[f] = TRUE

\* C5: at most one insertText, which is first and carries the whole buffer at
\* index 1; the style operations follow it, one per recorded range, in
\* recording order (source order; a line's paragraph-level range before its
\* inline ranges).
C5_OperationOrder ==
    /\ \A k \in 1..Len(requests) :
           IsInsertText(requests[k]) =>
               /\ k = 1
               /\ requests[k].insertText.location.index = 1
               /\ requests[k].insertText.text = fullText
    /\ Finished =>
           LET off == Len(requests) - Len(styleRanges) IN
           /\ off = (IF fullText # <<>> THEN 1 ELSE 0)
           /\ off = 1 => IsInsertText(requests[1])
           /\ \A k \in 1..Len(styleRanges) :
                  LET op == requests[off + k]
                      range == styleRanges[k]
                  IN /\ ~IsInsertText(op)
                     /\ OpRange(op) = RangeOf(range)
                     /\ IsTextStyle(op) <=> HasTextStyle(range)
                     /\ IsBullets(op) <=> HasBullet(range)
                     /\ IsParagraphStyle(op) <=> HasParagraphStyle(range)
           /\ \A j, k \in StyleOps :
                  j < k =>
                      LET a == requests[j]
                          b == requests[k]
                      IN /\ OpRange(a).startIndex <= OpRange(b).startIndex
                         /\ ~IsTextStyle(b) => OpRange(a).endIndex <= OpRange(b).startIndex
                         /\ ~IsTextStyle(b) => OpRange(a).startIndex < OpRange(b).startIndex

C5_Witness ==
    /\ Finished
    /\ IsInsertText(requests[1])
    /\ \E j, k \in StyleOps :
           /\ j < k
           /\ IsBullets(requests[j])
           /\ IsTextStyle(requests[k])
           /\ \E m \in StyleOps : m < j /\ IsParagraphStyle(requests[m])

RECURSIVE RenderedLines(_)
RenderedLines(segs) ==
    IF segs = <<>> THEN <<>>
    ELSE JoinText(Head(segs).inlines) \o <<"\n">> \o RenderedLines(Tail(segs))

RECURSIVE JoinLines(_)
JoinLines(ls) ==
    IF Len(ls) = 1 THEN ls[1]
    ELSE ls[1] \o <<"\n">> \o JoinLines(Tail(ls))

\* C6: there is one segment per element of the input split on newline (no line
\* merged or dropped), and the buffer is, in order, each line's rendered text
\* followed by exactly one newline.
C6_OneSegmentPerLine ==
    /\ pc # "split" =>
           /\ Len(lines) = CountNewlines(markdown) + 1
           /\ JoinLines(lines) = markdown
    /\ Len(segments) = li
    /\ pc \in {"layout", "styles", "done"} => Len(segments) = Len(lines)
    /\ pc \in {"styles", "done"} =>
           /\ fullText = RenderedLines(segments)
           /\ CountNewlines(fullText) = Len(lines)
           /\ Len(fullText) = currentIndex - 1

C6_Witness ==
    /\ Finished
    /\ Len(lines) >= 3
    /\ lines[Len(lines)] = <<>>
    /\ lines[2] = <<>>
    /\ lines[1] # <<>>
    /\ Len(segments) = Len(lines)

\* the marker that opens at i has no closer before the end of the line
UnterminatedBold ==
    /\ InParse
    /\ CharAt(text, i) = "*" /\ CharAt(text, i + 1) = "*"
    /\ ~\E k \in (i + 2)..(Len(text) - 2) : CharAt(text, k) = "*" /\ CharAt(text, k + 1) = "*"

UnterminatedItalic ==
    /\ InParse
    /\ CharAt(text, i) = "*" /\ CharAt(text, i + 1) # "*"
    /\ ~\E k \in (i + 1)..(Len(text) - 1) : CharAt(text, k) = "*"

UnterminatedCode ==
    /\ InParse
    /\ CharAt(text, i) = Backtick
    /\ ~\E k \in (i + 1)..(Len(text) - 1) : CharAt(text, k) = Backtick

\* the runs so far, then one styled run holding everything after the marker
SwallowsRest(markerLen, b, it) ==
    /\ result' = Append(IF current # <<>> THEN Append(result, Inline(current, FALSE, FALSE))
                                          ELSE result,
                        Inline(Remainder(text, i + markerLen), b, it))
    /\ current' = <<>>
    /\ i' >= Len(text)

C7_Step ==
    /\ UnterminatedBold => SwallowsRest(2, TRUE, FALSE)
    /\ UnterminatedItalic => SwallowsRest(1, FALSE, TRUE)
    /\ UnterminatedCode => SwallowsRest(1, FALSE, TRUE)
    /\ (pc = "parseInline" /\ i >= Len(text) /\ current = <<>>) =>
           segments'[Len(segments')].inlines = result

C7_Example ==
    (Finished /\ markdown = UnterminatedInput) =>
        /\ Len(segments) = 1
        /\ segments[1].inlines = <<Inline(Remainder(UnterminatedInput, 1), FALSE, TRUE)>>

\* C7: an unterminated "**", "*" or backtick consumes every remaining
\* character of the line into exactly one styled run, and parseInline returns
\* with no run after it; "*unterminated" yields the single italic run
\* "unterminated".
C7_UnterminatedSwallows == [](C7_Example) /\ [][C7_Step]_vars

C7_Witness ==
    /\ pc = "parseInline"
    /\ text = <<"a", "*", "*", "a", "*">>
    /\ i >= Len(text)
    /\ result = <<Inline(<<"a">>, FALSE, FALSE), Inline(<<"a", "*">>, TRUE, FALSE)>>

IsHeading(seg) == seg.style \in {"HEADING_1", "HEADING_2", "HEADING_3"}

HeadingPrefixLen(seg) ==
    IF seg.style = "HEADING_1" THEN 2 ELSE IF seg.style = "HEADING_2" THEN 3 ELSE 4

\* no text-style operation has a range inside the range of a heading
NoTextStyleInHeading ==
    \A j, k \in 1..Len(requests) :
           (IsParagraphStyle(requests[j]) /\ IsTextStyle(requests[k])) =>
               LET h == OpRange(requests[j])
                   t == OpRange(requests[k])
               IN /\ ~(h.startIndex <= t.startIndex /\ t.startIndex < h.endIndex)
                  /\ ~(t.startIndex < h.endIndex /\ h.startIndex < t.endIndex)

UpToTerminator(s) ==
    LET stops == {n \in 1..Len(s) : s[n] \in {"\r", LineSeparator, ParagraphSeparator}} IN
    IF stops = {} THEN s
    ELSE SubSeq(s, 1, (CHOOSE n \in stops : \A m \in stops : n <= m) - 1)

C9_RangesNonEmpty ==
    /\ \A k \in StyleOps : OpRange(requests[k]).startIndex < OpRange(requests[k]).endIndex
    /\ \A k \in 1..Len(segments) :
           \A n \in 1..Len(segments[k].inlines) :
               LET run == segments[k].inlines[n] IN
               (run.bold \/ run.italic) => run.text # <<>>

\* what parseInline returns when its loop is over (lines 56-57)
AtParseReturn == pc = "parseInline" /\ i >= Len(text)
Returned == IF current # <<>> THEN Append(result, Inline(current, FALSE, FALSE)) ELSE result

\* C10 (as claimed): the texts of the returned runs, concatenated, are the
\* line with every asterisk and backtick removed.
C10_AllMarkersRemoved == AtParseReturn => JoinText(Returned) = StripMarkers(text)

NumRuns(runs, b, it) == Cardinality({k \in 1..Len(runs) : runs[k].bold = b /\ runs[k].italic = it})

\* C10 (amended): the texts of the returned runs, concatenated, hold every
\* character of the line that is no asterisk or backtick, in order; only
\* marker characters are consumed (each styled run its opening marker and at
\* most one closing marker); a plain run holds no marker character, a styled
\* run may keep the marker characters that did not close it.
C10_OnlyMarkersConsumed ==
    AtParseReturn =>
        LET runs == Returned
            consumedMin == 2 * NumRuns(runs, TRUE, FALSE) + NumRuns(runs, FALSE, TRUE)
        IN /\ StripMarkers(JoinText(runs)) = StripMarkers(text)
           /\ \A k \in 1..Len(runs) :
                  (~runs[k].bold /\ ~runs[k].italic) =>
                      /\ runs[k].text # <<>>
                      /\ \A n \in 1..Len(runs[k].text) : ~IsMarker(runs[k].text[n])
           /\ Len(JoinText(runs)) + consumedMin <= Len(text)
           /\ Len(text) <= Len(JoinText(runs)) + 2 * consumedMin

C10_Witness ==
    /\ AtParseReturn
    /\ Len(Returned) >= 2
    /\ \E k \in 1..Len(Returned) : ~Returned[k].bold /\ ~Returned[k].italic
    /\ \E n \in 1..Len(JoinText(Returned)) : IsMarker(JoinText(Returned)[n])

-----------------------------------------------------------------------------
(* Positions of lines and runs in the buffer *)

\* the rendered length (text plus newline) of the first n segments
RECURSIVE RenderedLength(_)
RenderedLength(n) ==
    IF n = 0 THEN 0
    ELSE RenderedLength(n - 1) + Len(JoinText(segments[n].inlines)) + 1

\* where segment k starts and where its text (without the newline) ends
LineStart(k) == 1 + RenderedLength(k - 1)
LineTextEnd(k) == LineStart(k) + Len(JoinText(segments[k].inlines))

\* the characters of the buffer a range covers (index 1 is the first character)
Covered(range) == SubSeq(fullText, range.startIndex, range.endIndex - 1)

ParagraphLevelOps == {k \in StyleOps : ~IsTextStyle(requests[k])}
TextStyleOps == {k \in StyleOps : IsTextStyle(requests[k])}

ParagraphLevelLines == {k \in 1..Len(segments) : IsHeading(segments[k]) \/ segments[k].bullet}

ItemsText ==
    <<"i", "t", "e", "m", " ", "o", "n", "e", "\n",
      "i", "t", "e", "m", " ", "t", "w", "o", "\n">>

\* C11: each heading or bullet line has exactly one paragraph-level range,
\* from 1 + the rendered length of the preceding segments to that start + the
\* line's text length + 1 (its own line with its newline); these ranges do not
\* overlap and none ends beyond 1 + the length of the buffer; a bullet line
\* yields a bullet operation and never a paragraph-style operation.
C11_ParagraphRangesSpanLines ==
    Finished =>
        /\ Cardinality(ParagraphLevelOps) = Cardinality(ParagraphLevelLines)
        /\ \A k \in ParagraphLevelLines :
               \E j \in ParagraphLevelOps :
                   LET op == requests[j] IN
                   /\ OpRange(op).startIndex = LineStart(k)
                   /\ OpRange(op).endIndex = LineStart(k) + Len(JoinText(segments[k].inlines)) + 1
                   /\ Covered(OpRange(op)) = JoinText(segments[k].inlines) \o <<"\n">>
                   /\ segments[k].bullet => IsBullets(op)
                   /\ ~segments[k].bullet =>
                          /\ IsParagraphStyle(op)
                          /\ op.updateParagraphStyle.paragraphStyle.namedStyleType
                                 = segments[k].style
        /\ \A j \in ParagraphLevelOps :
               /\ OpRange(requests[j]).endIndex <= 1 + Len(fullText)
               /\ OpRange(requests[j]).startIndex >= 1
               /\ OpRange(requests[j]).startIndex > 1 =>
                      fullText[OpRange(requests[j]).startIndex - 1] = "\n"
               /\ \A m \in ParagraphLevelOps :
                      j # m =>
                          ~(/\ OpRange(requests[j]).startIndex < OpRange(requests[m]).endIndex
                            /\ OpRange(requests[m]).startIndex < OpRange(requests[j]).endIndex)
        /\ markdown = ItemsInput =>
               /\ fullText = ItemsText
               /\ Len(requests) = 3
               /\ IsBullets(requests[2]) /\ IsBullets(requests[3])
               /\ OpRange(requests[2]) = [startIndex |-> 1, endIndex |-> 10]
               /\ OpRange(requests[3]) = [startIndex |-> 10, endIndex |-> 19]

C11_Witness ==
    /\ Finished
    /\ \E j, m \in ParagraphLevelOps :
           /\ j < m
           /\ IsParagraphStyle(requests[j])
           /\ IsBullets(requests[m])
           /\ OpRange(requests[m]).startIndex > 1

\* the styled runs, as <<line, run>> pairs
StyledRuns ==
    {kn \in UNION {{<<k, n>> : n \in 1..Len(segments[k].inlines)} : k \in 1..Len(segments)} :
        LET run == segments[kn[1]].inlines[kn[2]] IN run.bold \/ run.italic}

\* where run n of line k starts: the line's start plus the runs before it
RunStart(k, n) == LineStart(k) + Len(JoinText(SubSeq(segments[k].inlines, 1, n - 1)))

Overlap(a, b) == a.startIndex < b.endIndex /\ b.startIndex < a.endIndex

BoldItalicText ==
    <<"b", "o", "l", "d", " ", "a", "n", "d", " ", "i", "t", "a", "l", "i", "c", "\n">>

\* C12: the text-style ranges are pairwise non-overlapping; there is one per
\* styled run, covering exactly the buffer positions of that run's characters,
\* inside its own line's span without the trailing newline; for
\* "**bold** and *italic*" the buffer is "bold and italic\n" with a bold range
\* over the first 4 characters and an italic range over the word "italic".
C12_TextStyleRangesCoverRuns ==
    Finished =>
        /\ Cardinality(TextStyleOps) = Cardinality(StyledRuns)
        /\ \A kn \in StyledRuns :
               LET k == kn[1]
                   run == segments[k].inlines[kn[2]]
               IN \E j \in TextStyleOps :
                      LET t == OpRange(requests[j]) IN
                      /\ t.startIndex = RunStart(k, kn[2])
                      /\ t.endIndex = t.startIndex + Len(run.text)
                      /\ Covered(t) = run.text
                      /\ LineStart(k) <= t.startIndex
                      /\ t.endIndex <= LineTextEnd(k)
                      /\ requests[j].updateTextStyle.textStyle.bold = run.bold
                      /\ requests[j].updateTextStyle.textStyle.italic = run.italic
        /\ \A j, m \in TextStyleOps :
               j # m => ~Overlap(OpRange(requests[j]), OpRange(requests[m]))
        /\ \A j \in TextStyleOps :
               \A n \in OpRange(requests[j]).startIndex..(OpRange(requests[j]).endIndex - 1) :
                   fullText[n] # "\n"
        /\ markdown = BoldItalicInput =>
               /\ fullText = BoldItalicText
               /\ Len(requests) = 3
               /\ IsTextStyle(requests[2]) /\ IsTextStyle(requests[3])
               /\ requests[2].updateTextStyle.textStyle.bold
               /\ ~requests[2].updateTextStyle.textStyle.italic
               /\ OpRange(requests[2]) = [startIndex |-> 1, endIndex |-> 5]
               /\ requests[3].updateTextStyle.textStyle.italic
               /\ ~requests[3].updateTextStyle.textStyle.bold
               /\ OpRange(requests[3]) = [startIndex |-> 10, endIndex |-> 16]

C12_Witness ==
    /\ Finished
    /\ Len(segments) >= 2
    /\ \E j, m \in TextStyleOps :
           /\ j < m
           /\ OpRange(requests[j]).startIndex > 1
           /\ OpRange(requests[j]).startIndex < OpRange(requests[j]).endIndex
           /\ OpRange(requests[m]).startIndex < OpRange(requests[m]).endIndex
           /\ OpRange(requests[j]).endIndex < OpRange(requests[m]).startIndex
====
